---- MODULE Spec2Model ----
(***************************************************************************)
(* Model of src/bot.js: the /findlevel command of the Geometry Dash level  *)
(* search bot.  Two parts:                                                 *)
(*   - the pagination session a command opens on its reply message (the    *)
(*     closure variables page/totalPages, the component collector and the  *)
(*     requests it sends to the chat platform);                            *)
(*   - the search + filter pipeline findLevelsWithFilters, with the JSON   *)
(*     values it probes modelled as tagged JavaScript values.              *)
(***************************************************************************)
EXTENDS Integers, Sequences, FiniteSets, TLC

(* ------------------------------ bounds -------------------------------- *)
MaxSessions == 2
MaxMatches == 11
MaxInflight == 2
NumUsers == 2

(* ------------------------- program constants -------------------------- *)
PerPage == 5

Sessions == 1..MaxSessions
Users == 1..NumUsers
Buttons == {"prev_page", "next_page"}

VARIABLES
  cmds,        \* the command invocations that arrive in this behaviour
  sess,        \* per invocation: "idle", "noresults", "single", "active", "ended"
  owner,       \* interaction.user.id of the invocation (0 before it arrives)
  nMatches,    \* matches.length of the invocation
  totalPages,  \* closure constant totalPages
  page,        \* closure variable page
  msg,         \* the reply message as the platform shows it
  inflight,    \* i.update requests sent and not yet applied, oldest first
  endEdit,     \* the reply.edit of the 'end' callback: "none","sent","applied","failed"
  outcome,     \* what the last button event on the message was answered with
  pc,          \* where the pipeline run of a command stands ("off": none modelled)
  remote,      \* which family of detail payloads the remote index serves
  rawOpts,     \* the options of the command as the user gave them
  opts,        \* the opts object handed to findLevelsWithFilters
  searchLimit, \* the limit the search request was sent with
  searchItems, \* the array gdh_searchLevelsAdvanced returned
  idx,         \* position of the for-of loop in searchItems
  matches,     \* the matches array
  searchRequest, \* the parameters on the URL of the search request
  searchOutcome, \* how the search settled: "none" (not sent), "ok", "rejected"
  fetchLog,    \* per loop iteration: the detail requests it made and how it ended
  warnings,    \* the number of console.warn lines of the loop's catch
  interaction  \* the interaction: its deferred flag and what the requester is shown

sessionVars == <<cmds, sess, owner, nMatches, totalPages, page, msg, inflight, endEdit, outcome>>

pipelineVars == <<pc, remote, rawOpts, opts, searchLimit, searchItems, idx, matches,
                  searchRequest, searchOutcome, fetchLog, warnings, interaction>>

vars == <<cmds, sess, owner, nMatches, totalPages, page, msg, inflight, endEdit, outcome,
          pc, remote, rawOpts, opts, searchLimit, searchItems, idx, matches,
          searchRequest, searchOutcome, fetchLog, warnings, interaction>>

(* ------------------------------ helpers ------------------------------- *)
Max(a, b) == IF a >= b THEN a ELSE b
Min(a, b) == IF a <= b THEN a ELSE b

\* Math.ceil(a / b) for a >= 0, b > 0
CeilDiv(a, b) == (a + b - 1) \div b

\* Array.prototype.slice(start, end).length for an array of length len
SliceLen(len, start, end) ==
  LET rel(i) == IF i < 0 THEN Max(len + i, 0) ELSE Min(i, len)
  IN Max(rel(end) - rel(start), 0)

(* ------------------------- JavaScript values -------------------------- *)
\* JSON payloads and option values are tagged records; strings are
\* sequences of one-character strings so that coercions can be computed.
JUndef == [kind |-> "undefined"]
JNull == [kind |-> "null"]
JNaN == [kind |-> "nan"]
JInf == [kind |-> "infinity"]
\* numbers are held in tenths, so that 62.2 is a value: val is ten times the number
JTenths(t) == [kind |-> "number", val |-> t]
JNum(n) == JTenths(10 * n)
JStr(cs) == [kind |-> "string", val |-> cs]
JArr(xs) == [kind |-> "array", val |-> xs]
JObj(r) == [kind |-> "object", val |-> r]
\* the result of an evaluation that threw
Thrown == [kind |-> "throw"]

\* ToBoolean
Truthy(v) ==
  CASE v.kind \in {"undefined", "null", "nan"} -> FALSE
    [] v.kind = "number" -> v.val # 0
    [] v.kind = "string" -> v.val # <<>>
    [] OTHER -> TRUE

\* typeof v === 'number'
TypeofNumber(v) == v.kind \in {"number", "nan", "infinity"}

\* a value the `in` operator rejects with a TypeError
IsPrimitive(v) == v.kind \notin {"object", "array"}

DigitChars == <<"0", "1", "2", "3", "4", "5", "6", "7", "8", "9">>
IsDigit(c) == \E i \in 1..10 : DigitChars[i] = c
DigitValue(c) == (CHOOSE i \in 1..10 : DigitChars[i] = c) - 1

RECURSIVE ParseDigits(_)
ParseDigits(cs) ==
  IF cs = <<>> THEN 0
  ELSE 10 * ParseDigits(SubSeq(cs, 1, Len(cs) - 1)) + DigitValue(cs[Len(cs)])

RECURSIVE TrimLeft(_)
TrimLeft(cs) == IF cs # <<>> /\ Head(cs) = " " THEN TrimLeft(Tail(cs)) ELSE cs

RECURSIVE TrimRight(_)
TrimRight(cs) ==
  IF cs # <<>> /\ cs[Len(cs)] = " " THEN TrimRight(SubSeq(cs, 1, Len(cs) - 1)) ELSE cs

\* String.prototype.trim
Trim(cs) == TrimRight(TrimLeft(cs))

\* the position of the first c in cs, or 0
IndexOf(cs, c) ==
  IF \E i \in 1..Len(cs) : cs[i] = c
  THEN CHOOSE i \in 1..Len(cs) : cs[i] = c /\ \A j \in 1..(i - 1) : cs[j] # c
  ELSE 0

\* Number(string) over the alphabet of digits, the decimal point, blanks and
\* other characters; a fraction is read to its first digit (tenths)
NumberOfString(cs) ==
  LET t == Trim(cs)
      dot == IndexOf(t, ".")
      ip == IF dot = 0 THEN t ELSE SubSeq(t, 1, dot - 1)
      fp == IF dot = 0 THEN <<>> ELSE SubSeq(t, dot + 1, Len(t))
  IN IF t = <<>> THEN JNum(0)
     ELSE IF /\ \A i \in 1..Len(ip) : IsDigit(ip[i])
             /\ \A i \in 1..Len(fp) : IsDigit(fp[i])
             /\ Len(ip) + Len(fp) > 0
          THEN JTenths(10 * ParseDigits(ip) + (IF fp = <<>> THEN 0 ELSE DigitValue(fp[1])))
     ELSE JNaN

\* Number(v)
RECURSIVE ToNumber(_)
ToNumber(v) ==
  CASE v.kind \in {"number", "nan", "infinity"} -> v
    [] v.kind = "null" -> JNum(0)
    [] v.kind = "string" -> NumberOfString(v.val)
    [] v.kind = "array" ->
         IF v.val = <<>> THEN JNum(0)
         ELSE IF Len(v.val) > 1 THEN JNaN
         ELSE IF v.val[1].kind \in {"null", "undefined"} THEN JNum(0)
         ELSE IF v.val[1].kind = "object" THEN JNaN
         ELSE ToNumber(v.val[1])
    [] OTHER -> JNaN

\* a === b for values that are numbers or null
StrictEq(a, b) ==
  CASE a.kind = "nan" \/ b.kind = "nan" -> FALSE
    [] a.kind # b.kind -> FALSE
    [] a.kind = "number" -> a.val = b.val
    [] OTHER -> TRUE

\* a < b for numbers
NumLess(a, b) ==
  CASE a.kind = "nan" \/ b.kind = "nan" -> FALSE
    [] a.kind = "infinity" -> FALSE
    [] b.kind = "infinity" -> TRUE
    [] OTHER -> a.val < b.val

\* k in v, for an object or an array
HasProp(v, k) ==
  CASE v.kind = "object" -> k \in DOMAIN v.val
    [] v.kind = "array" -> k = "length"
    [] OTHER -> FALSE

\* v[k]
GetProp(v, k) ==
  CASE v.kind = "object" -> IF k \in DOMAIN v.val THEN v.val[k] ELSE JUndef
    [] v.kind = "array" -> IF k = "length" THEN JNum(Len(v.val)) ELSE JUndef
    [] OTHER -> JUndef

(* ----------------------------- helpers -------------------------------- *)
\* a key of tryGet: its text and the parts k.split('.') gives
Key(name) == [name |-> name, parts |-> <<name>>]
Path(name, parts) == [name |-> name, parts |-> parts]

\* lines 51-58: the walk along a dotted path; "fail" is ok = false
RECURSIVE WalkPath(_, _, _)
WalkPath(cur, parts, j) ==
  IF j > Len(parts) THEN cur
  ELSE IF ~Truthy(cur) THEN [kind |-> "fail"]
  ELSE IF IsPrimitive(cur) THEN Thrown
  ELSE IF ~HasProp(cur, parts[j]) THEN [kind |-> "fail"]
  ELSE WalkPath(GetProp(cur, parts[j]), parts, j + 1)

RECURSIVE tryGetFrom(_, _, _)
tryGetFrom(obj, keys, i) ==
  IF i > Len(keys) THEN JNull
  ELSE IF ~Truthy(obj) THEN tryGetFrom(obj, keys, i + 1)
  ELSE IF IsPrimitive(obj) THEN Thrown
  ELSE IF HasProp(obj, keys[i].name)
          /\ GetProp(obj, keys[i].name).kind \notin {"null", "undefined"}
       THEN GetProp(obj, keys[i].name)
  ELSE IF Len(keys[i].parts) > 1
       THEN LET cur == WalkPath(obj, keys[i].parts, 1)
            IN IF cur.kind = "throw" THEN Thrown
               ELSE IF cur.kind \notin {"fail", "undefined", "null"} THEN cur
               ELSE tryGetFrom(obj, keys, i + 1)
  ELSE tryGetFrom(obj, keys, i + 1)

\* lines 45-62
tryGet(obj, keys) == tryGetFrom(obj, keys, 1)

RECURSIVE Split(_, _)
\* String.prototype.split(sep) for a one-character separator
Split(cs, sep) ==
  IF \A i \in 1..Len(cs) : cs[i] # sep THEN <<cs>>
  ELSE LET i == CHOOSE i \in 1..Len(cs) :
                   cs[i] = sep /\ \A j \in 1..(i - 1) : cs[j] # sep
       IN <<SubSeq(cs, 1, i - 1)>> \o Split(SubSeq(cs, i + 1, Len(cs)), sep)

RECURSIVE SelectNumbers(_)
\* .filter(Boolean).map(Number).filter(n => Number.isFinite(n)) over trimmed parts
SelectNumbers(parts) ==
  IF parts = <<>> THEN <<>>
  ELSE LET n == NumberOfString(Head(parts))
       IN (IF Head(parts) # <<>> /\ n.kind = "number" THEN <<n>> ELSE <<>>)
            \o SelectNumbers(Tail(parts))

\* lines 65-68
parseIdList(raw) ==
  IF raw = <<>> THEN <<>>
  ELSE SelectNumbers([i \in 1..Len(Split(raw, ",")) |-> Trim(Split(raw, ",")[i])])

LevelIdKeys ==
  <<Key("online_id"), Key("id"), Key("level_id"), Key("levelID"), Key("levelId"),
    Key("onlineId")>>

\* lines 71-74
extractLevelIdFromSearchItem(item) ==
  LET v == tryGet(item, LevelIdKeys)
  IN IF v.kind = "throw" THEN Thrown ELSE IF Truthy(v) THEN v ELSE JNull

ObjectCountKeys ==
  <<Key("objects"), Key("object_count"), Key("objectCount"), Key("cache_objects"),
    Key("cache_object_count"), Path("metadata.objects", <<"metadata", "objects">>),
    Path("meta.objects", <<"meta", "objects">>)>>

\* lines 77-88
extractObjectCount(detail) == tryGet(detail, ObjectCountKeys)

\* the first match of /(\d+(?:\.\d+)?)/: the first maximal run of digits with,
\* when a point and a digit follow it, the point and the digits after it;
\* <<>> when there is no digit
RECURSIVE DigitRun(_)
DigitRun(cs) ==
  IF cs = <<>> \/ ~IsDigit(Head(cs)) THEN <<>> ELSE <<Head(cs)>> \o DigitRun(Tail(cs))

RECURSIVE FirstNumber(_)
FirstNumber(cs) ==
  IF cs = <<>> THEN <<>>
  ELSE IF IsDigit(Head(cs))
       THEN LET ip == DigitRun(cs)
                rest == SubSeq(cs, Len(ip) + 1, Len(cs))
            IN IF Len(rest) >= 2 /\ rest[1] = "." /\ IsDigit(rest[2])
               THEN ip \o <<".">> \o DigitRun(Tail(rest))
               ELSE ip
  ELSE FirstNumber(Tail(cs))

LengthKeys ==
  <<Key("length_seconds"), Key("lengthSeconds"), Key("length"), Key("cache_length"),
    Key("cache_real_length"), Path("meta.lengthSeconds", <<"meta", "lengthSeconds">>),
    Path("meta.length", <<"meta", "length">>),
    Path("metadata.lengthSeconds", <<"metadata", "lengthSeconds">>),
    Path("metadata.length", <<"metadata", "length">>)>>

RECURSIVE extractLengthFrom(_, _)
extractLengthFrom(detail, c) ==
  IF c > Len(LengthKeys) THEN JNull
  ELSE LET v == tryGet(detail, <<LengthKeys[c]>>)
       IN IF v.kind = "throw" THEN Thrown
          ELSE IF TypeofNumber(v) THEN v
          ELSE IF v.kind = "string" /\ FirstNumber(v.val) # <<>>
               THEN NumberOfString(FirstNumber(v.val))
          ELSE extractLengthFrom(detail, c + 1)

\* lines 91-114
extractLengthSeconds(detail) == extractLengthFrom(detail, 1)

(* ----------------------- search + filter pipeline --------------------- *)
DefaultLimit == 30
MaxCheck == 200

\* line 202: (detail && (detail.level || detail.data || detail)) || detail
LevelObject(detail) ==
  IF ~Truthy(detail) THEN detail
  ELSE IF Truthy(GetProp(detail, "level")) THEN GetProp(detail, "level")
  ELSE IF Truthy(GetProp(detail, "data")) THEN GetProp(detail, "data")
  ELSE detail

\* lines 207-208: (typeof v === 'number') ? v : (v ? Number(v) : null)
Normalize(v) == IF TypeofNumber(v) THEN v ELSE IF Truthy(v) THEN ToNumber(v) ELSE JNull

\* mutant: the exact count is not looked at
ObjectFilterRangeOnly(o, objCountNum) ==
  IF objCountNum.kind # "null"
  THEN ~NumLess(objCountNum, o.minObjects) /\ ~NumLess(o.maxObjects, objCountNum)
  ELSE TRUE

\* mutant: the range is checked on top of the exact count
ObjectFilterExactAndRange(o, objCountNum) ==
  IF objCountNum.kind = "null" THEN TRUE
  ELSE /\ o.exactObjects.kind # "null" => StrictEq(objCountNum, o.exactObjects)
       /\ ~NumLess(objCountNum, o.minObjects)
       /\ ~NumLess(o.maxObjects, objCountNum)

\* lines 211-218: TRUE when the object-count check lets the record through
ObjectFilter(o, objCountNum) ==
  IF o.exactObjects.kind # "null" /\ objCountNum.kind # "null"
  THEN StrictEq(objCountNum, o.exactObjects)
  ELSE IF objCountNum.kind # "null"
       THEN ~NumLess(objCountNum, o.minObjects) /\ ~NumLess(o.maxObjects, objCountNum)
       ELSE TRUE

ObjectListKeys ==
  <<Key("object_list"), Key("objects_list"), Key("objects_data"), Key("objectData"),
    Key("objects")>>

ObjectIdKeys == <<Key("id"), Key("object_id"), Key("objectId")>>

\* line 226: objectsArray.some(o => Number(tryGet(o, ...)) === Number(req))
RECURSIVE SomeHasId(_, _, _)
SomeHasId(arr, req, i) ==
  IF i > Len(arr) THEN "no"
  ELSE LET v == tryGet(arr[i], ObjectIdKeys)
       IN IF v.kind = "throw" THEN "throw"
          ELSE IF StrictEq(ToNumber(v), ToNumber(req)) THEN "yes"
          ELSE SomeHasId(arr, req, i + 1)

\* line 226: requiredObjectIds.every(...)
RECURSIVE HasAll(_, _, _)
HasAll(reqs, arr, j) ==
  IF j > Len(reqs) THEN "yes"
  ELSE LET r == SomeHasId(arr, reqs[j], 1)
       IN IF r = "yes" THEN HasAll(reqs, arr, j + 1) ELSE r

\* lines 222-232: "pass", "reject" or "throw"
RequiredIdsFilter(o, lvlObj) ==
  IF Len(o.requiredObjectIds) = 0 THEN "pass"
  ELSE LET objectsArray == tryGet(lvlObj, ObjectListKeys)
       IN IF objectsArray.kind = "throw" THEN "throw"
          ELSE IF objectsArray.kind = "array"
               THEN LET r == HasAll(o.requiredObjectIds, objectsArray.val, 1)
                    IN IF r = "yes" THEN "pass" ELSE IF r = "no" THEN "reject" ELSE "throw"
          ELSE "reject"

\* mutant: a record of unknown length is let through
LengthFilterUnknownPasses(o, lenSecNum) ==
  IF o.exactLengthSeconds.kind = "null" THEN TRUE
  ELSE IF lenSecNum.kind # "number" THEN TRUE
  ELSE LET d == lenSecNum.val - o.exactLengthSeconds.val
       IN ~((IF d < 0 THEN -d ELSE d) > 3)

\* lines 235-238: Math.abs(lenSecNum - exactLengthSeconds) > 0.3, in tenths
LengthFilter(o, lenSecNum) ==
  IF o.exactLengthSeconds.kind = "null" THEN TRUE
  ELSE IF lenSecNum.kind = "null" THEN FALSE
  ELSE IF lenSecNum.kind # "number" THEN lenSecNum.kind = "nan"
  ELSE LET d == lenSecNum.val - o.exactLengthSeconds.val
       IN ~((IF d < 0 THEN -d ELSE d) > 3)

UpperChars ==
  <<"A", "B", "C", "D", "E", "F", "G", "H", "I", "J", "K", "L", "M",
    "N", "O", "P", "Q", "R", "S", "T", "U", "V", "W", "X", "Y", "Z">>
LowerChars ==
  <<"a", "b", "c", "d", "e", "f", "g", "h", "i", "j", "k", "l", "m",
    "n", "o", "p", "q", "r", "s", "t", "u", "v", "w", "x", "y", "z">>

\* String.prototype.toLowerCase
ToLowerCase(cs) ==
  [i \in 1..Len(cs) |->
     IF \E j \in 1..26 : UpperChars[j] = cs[i]
     THEN LowerChars[CHOOSE j \in 1..26 : UpperChars[j] = cs[i]]
     ELSE cs[i]]

\* cs.indexOf(sub) !== -1
Contains(cs, sub) ==
  \E i \in 1..(Len(cs) - Len(sub) + 1) : SubSeq(cs, i, i + Len(sub) - 1) = sub

\* String(v) for the values a difficulty text takes
ToText(v) ==
  CASE v.kind = "string" -> v.val
    [] v.kind = "number" /\ v.val \in {10 * n : n \in 0..9} -> <<DigitChars[(v.val \div 10) + 1]>>
    [] OTHER -> <<"[", "o", "b", "j", "]">>

\* line 242
diffMap ==
  [name \in {<<"e", "a", "s", "y">>, <<"n", "o", "r", "m", "a", "l">>, <<"h", "a", "r", "d">>,
             <<"h", "a", "r", "d", "e", "r">>, <<"i", "n", "s", "a", "n", "e">>,
             <<"d", "e", "m", "o", "n">>} |->
     CASE name = <<"e", "a", "s", "y">> -> 1
       [] name = <<"n", "o", "r", "m", "a", "l">> -> 2
       [] name = <<"h", "a", "r", "d">> -> 3
       [] name = <<"h", "a", "r", "d", "e", "r">> -> 4
       [] name = <<"i", "n", "s", "a", "n", "e">> -> 5
       [] OTHER -> 6]

DifficultyKeys ==
  <<Key("cache_filter_difficulty"), Key("difficulty"), Key("level_difficulty"),
    Key("difficulty_id")>>

DifficultyTextKeys == <<Key("difficulty_text"), Key("difficultyName"), Key("difficultyString")>>

\* lines 241-262: "pass", "reject" or "throw"
DifficultyFilter(o, lvlObj) ==
  IF ~Truthy(o.difficulty) THEN "pass"
  ELSE LET levelDiff == tryGet(lvlObj, DifficultyKeys)
           levelDiffNum == IF Truthy(levelDiff) THEN ToNumber(levelDiff) ELSE JNull
           wanted == ToLowerCase(o.difficulty.val)
       IN IF levelDiff.kind = "throw" THEN "throw"
          ELSE IF wanted = <<"a", "u", "t", "o">> THEN "pass"
          ELSE IF wanted = <<"d", "e", "m", "o", "n">>
               THEN IF levelDiffNum.kind # "null"
                    THEN IF ~NumLess(levelDiffNum, JNum(6)) /\ levelDiffNum.kind # "nan"
                         THEN "pass" ELSE "reject"
                    ELSE LET diffText == tryGet(lvlObj, DifficultyTextKeys)
                         IN IF diffText.kind = "throw" THEN "throw"
                            ELSE IF Truthy(diffText)
                                    /\ ~Contains(ToLowerCase(ToText(diffText)), <<"d", "e", "m">>)
                                 THEN "reject" ELSE "pass"
          ELSE IF levelDiffNum.kind # "null" /\ wanted \in DOMAIN diffMap
               THEN IF StrictEq(levelDiffNum, JNum(diffMap[wanted])) THEN "pass" ELSE "reject"
          ELSE "pass"

\* lines 201-264: what one fetched detail leads to: [result |-> "push", match |-> m],
\* [result |-> "continue"] or [result |-> "throw"]
ProcessDetail(o, levelId, item, detail) ==
  LET lvlObj == LevelObject(detail)
      objCount == extractObjectCount(lvlObj)
      lenSec == IF objCount.kind = "throw" THEN Thrown ELSE extractLengthSeconds(lvlObj)
      objCountNum == Normalize(objCount)
      lenSecNum == Normalize(lenSec)
      req == RequiredIdsFilter(o, lvlObj)
      diff == DifficultyFilter(o, lvlObj)
  IN IF objCount.kind = "throw" \/ lenSec.kind = "throw" THEN [result |-> "throw"]
     ELSE IF ~ObjectFilter(o, objCountNum) THEN [result |-> "continue"]
     ELSE IF req # "pass" THEN [result |-> IF req = "throw" THEN "throw" ELSE "continue"]
     ELSE IF ~LengthFilter(o, lenSecNum) THEN [result |-> "continue"]
     ELSE IF diff # "pass" THEN [result |-> IF diff = "throw" THEN "throw" ELSE "continue"]
     ELSE [result |-> "push",
           match |-> [levelId |-> levelId, searchItem |-> item, detail |-> lvlObj,
                      objectCount |-> objCountNum, lengthSeconds |-> lenSecNum]]

(* --------------------------- presentation ----------------------------- *)
\* makeResultsEmbed: the "No results" embed, or the page window and footer
makeResultsEmbed(len, p, perPage) ==
  IF len = 0
  THEN [kind |-> "noresults", start |-> 0, fields |-> 0]
  ELSE [kind |-> "results", start |-> p * perPage,
        fields |-> SliceLen(len, p * perPage, p * perPage + perPage)]

\* mutant: Next is disabled one page too late
makePaginatorRowLate(p, tp) == [prevDisabled |-> p <= 0, nextDisabled |-> p >= tp]

\* makePaginatorRow: the disabled flags of the two buttons
makePaginatorRow(p, tp) == [prevDisabled |-> p <= 0, nextDisabled |-> p >= tp - 1]

NoMessage == [embed |-> [kind |-> "none", start |-> 0, fields |-> 0], components |-> <<>>]

\* a button a user can press: it is on the message and not disabled
Clickable(s, b) ==
  /\ msg[s].components # <<>>
  /\ IF b = "prev_page" THEN ~msg[s].components[1].prevDisabled
                        ELSE ~msg[s].components[1].nextDisabled

(* ------------------------ pagination session -------------------------- *)
\* mutant: the page count without its floor of one
TotalPagesOfNoFloor(len) == CeilDiv(len, PerPage)

\* line 382
TotalPagesOf(len) == Max(1, CeilDiv(len, PerPage))

\* mutant: prev without the lower clamp
PrevPageUnclamped(p) == p - 1

\* line 402
PrevPage(p) == Max(0, p - 1)

\* mutant: next without the upper clamp
NextPageUnclamped(p, tp) == p + 1

\* line 403
NextPage(p, tp) == Min(tp - 1, p + 1)

\* mutant: the owner check lets everyone through
IsOwnerAnyone(s, u) == TRUE

\* line 398
IsOwner(s, u) == u = owner[s]

\* lines 379-396: the handler has its matches, sends the first page and,
\* with more than one page, opens the collector
Reply(s, u, len) ==
  /\ s \in cmds
  /\ sess[s] = "idle"
  /\ owner' = [owner EXCEPT ![s] = u]
  /\ nMatches' = [nMatches EXCEPT ![s] = len]
  /\ totalPages' = [totalPages EXCEPT ![s] = TotalPagesOf(len)]
  /\ page' = [page EXCEPT ![s] = 0]
  /\ LET tp == TotalPagesOf(len)
         embed == makeResultsEmbed(len, 0, PerPage)
     IN /\ msg' = [msg EXCEPT ![s] =
                     [embed |-> embed,
                      components |-> IF len # 0 /\ tp > 1
                                     THEN <<makePaginatorRow(0, tp)>> ELSE <<>>]]
        /\ sess' = [sess EXCEPT ![s] =
                     IF len = 0 THEN "noresults"
                     ELSE IF tp <= 1 THEN "single" ELSE "active"]
  /\ UNCHANGED <<cmds, inflight, endEdit, outcome>>
  /\ UNCHANGED pipelineVars

\* mutant: one page variable shared by every invocation
SetPageShared(pg, s, p) == [t \in Sessions |-> p]

\* lines 383, 402-403: page is a variable of the closure of invocation s
SetPage(pg, s, p) == [pg EXCEPT ![s] = p]

\* lines 397-408: the 'collect' callback, up to its await
Collect(s, u, b) ==
  /\ sess[s] = "active"
  /\ Clickable(s, b)
  /\ IF ~IsOwner(s, u)
     THEN /\ outcome' = [outcome EXCEPT ![s] = "notice"]
          /\ UNCHANGED <<page, inflight>>
     ELSE /\ Len(inflight[s]) < MaxInflight
          /\ LET p1 == IF b = "prev_page" THEN PrevPage(page[s]) ELSE page[s]
                 p2 == IF b = "next_page" THEN NextPage(p1, totalPages[s]) ELSE p1
             IN /\ page' = SetPage(page, s, p2)
                /\ inflight' = [inflight EXCEPT ![s] =
                     Append(@, [embed |-> makeResultsEmbed(nMatches[s], p2, PerPage),
                                components |-> <<makePaginatorRow(p2, totalPages[s])>>])]
          /\ outcome' = [outcome EXCEPT ![s] = "update"]
  /\ UNCHANGED <<cmds, sess, owner, nMatches, totalPages, msg, endEdit>>
  /\ UNCHANGED pipelineVars

\* line 407: the platform applies an i.update
UpdateApplied(s) ==
  /\ inflight[s] # <<>>
  /\ msg' = [msg EXCEPT ![s] = Head(inflight[s])]
  /\ inflight' = [inflight EXCEPT ![s] = Tail(@)]
  /\ UNCHANGED <<cmds, sess, owner, nMatches, totalPages, page, endEdit, outcome>>
  /\ UNCHANGED pipelineVars

\* lines 396, 410-411: the collector's timer fires, 'end' sends reply.edit
Timeout(s) ==
  /\ sess[s] = "active"
  /\ sess' = [sess EXCEPT ![s] = "ended"]
  /\ endEdit' = [endEdit EXCEPT ![s] = "sent"]
  /\ UNCHANGED <<cmds, owner, nMatches, totalPages, page, msg, inflight, outcome>>
  /\ UNCHANGED pipelineVars

\* line 411: the platform applies reply.edit({ components: [] })
EditApplied(s) ==
  /\ endEdit[s] = "sent"
  /\ endEdit' = [endEdit EXCEPT ![s] = "applied"]
  /\ msg' = [msg EXCEPT ![s].components = <<>>]
  /\ UNCHANGED <<cmds, sess, owner, nMatches, totalPages, page, inflight, outcome>>
  /\ UNCHANGED pipelineVars

\* line 411: reply.edit rejects and the catch swallows it
EditFailed(s) ==
  /\ endEdit[s] = "sent"
  /\ endEdit' = [endEdit EXCEPT ![s] = "failed"]
  /\ UNCHANGED <<cmds, sess, owner, nMatches, totalPages, page, msg, inflight, outcome>>
  /\ UNCHANGED pipelineVars

\* line 352: a button event after the collector ended reaches only the
\* interactionCreate handler, which returns for anything but a chat command
LateClick(s, u, b) ==
  /\ sess[s] = "ended"
  /\ Clickable(s, b)
  /\ outcome' = [outcome EXCEPT ![s] = "unanswered"]
  /\ UNCHANGED <<cmds, sess, owner, nMatches, totalPages, page, msg, inflight, endEdit>>
  /\ UNCHANGED pipelineVars

(* ------------------- the pipeline as a state machine ------------------ *)
NoOpts ==
  [query |-> JStr(<<>>), lengthCategory |-> JNull, minObjects |-> JNum(0),
   maxObjects |-> JInf, exactObjects |-> JNull, requiredObjectIds |-> <<>>,
   exactLengthSeconds |-> JNull, difficulty |-> JNull, limit |-> JNum(DefaultLimit)]

\* v || d
OrElse(v, d) == IF Truthy(v) THEN v ELSE d

\* lines 357-377: the options read off the interaction
ParseOptions(raw) ==
  [query |-> OrElse(raw.query, JStr(<<>>)),
   lengthCategory |-> OrElse(raw.lengthcategory, JNull),
   minObjects |-> OrElse(raw.minobjects, JNum(0)),
   maxObjects |-> OrElse(raw.maxobjects, JInf),
   exactObjects |-> IF TypeofNumber(raw.exactobjects) THEN raw.exactobjects ELSE JNull,
   requiredObjectIds |-> parseIdList(OrElse(raw.requiredobjectids, JStr(<<>>)).val),
   exactLengthSeconds |->
     IF TypeofNumber(raw.exactlengthseconds) THEN raw.exactlengthseconds ELSE JNull,
   difficulty |-> OrElse(raw.difficulty, JNull),
   limit |-> OrElse(raw.limit, JNum(DefaultLimit))]

\* mutant: the limit is capped but not raised to 1
checkLimitNoFloor(o) == JNum(Min(OrElse(o.limit, JNum(1)).val \div 10, MaxCheck))

\* line 186: Math.min(Math.max(limit || 1, 1), 200)
checkLimit(o) == JNum(Min(Max(OrElse(o.limit, JNum(1)).val \div 10, 1), MaxCheck))

(* ------------------------ GDHistory fetch wrappers -------------------- *)
\* what a fetch resolves with: a response with its ok flag and the value
\* res.json() gives (Thrown: the body is not JSON); a fetch that rejects
\* (transport error) is Thrown itself
OkResponse(body) == [kind |-> "response", ok |-> TRUE, body |-> body]
HttpError == [kind |-> "response", ok |-> FALSE, body |-> Thrown]

\* lines 122-127: the parameters set on the URL
SearchUrl(params) ==
  [query |-> IF Truthy(params.query) THEN params.query ELSE JUndef,
   limit |-> params.limit,
   offset |-> params.offset,
   sort |-> IF Truthy(params.sort) THEN params.sort ELSE JUndef,
   filter |-> IF Truthy(params.filter) THEN params.filter ELSE JUndef]

SearchListKeys == <<"results", "data", "levels", "items", "rows">>

\* Array.isArray(json[k]) for the first k of keys from position i on, or 0
RECURSIVE FirstArrayKey(_, _, _)
FirstArrayKey(json, keys, i) ==
  IF i > Len(keys) THEN 0
  ELSE IF GetProp(json, keys[i]).kind = "array" THEN i
  ELSE FirstArrayKey(json, keys, i + 1)

\* lines 135-146: the list located in the parsed body. Object.values looks at
\* the values of the top-level keys only; the bodies modelled carry at most
\* one array under a key outside SearchListKeys, so its order does not matter
LocateList(json) ==
  IF json.kind = "array" THEN json
  ELSE IF json.kind \in {"null", "undefined"} THEN Thrown
  ELSE LET k == FirstArrayKey(json, SearchListKeys, 1)
           arrays == IF json.kind = "object"
                     THEN {key \in DOMAIN json.val : json.val[key].kind = "array"}
                     ELSE {}
       IN IF k # 0 THEN GetProp(json, SearchListKeys[k])
          ELSE IF arrays # {} THEN json.val[CHOOSE key \in arrays : TRUE]
          ELSE JArr(<<>>)

\* mutant: a failed search resolves with no items
gdh_searchLevelsAdvancedLenient(response) ==
  IF response.kind = "throw" THEN JArr(<<>>)
  ELSE IF ~response.ok THEN JArr(<<>>)
  ELSE IF response.body.kind = "throw" THEN JArr(<<>>)
  ELSE LocateList(response.body)

\* lines 129-146: what the search resolves with for the response of its fetch
gdh_searchLevelsAdvanced(response) ==
  IF response.kind = "throw" THEN Thrown
  ELSE IF ~response.ok THEN Thrown
  ELSE IF response.body.kind = "throw" THEN Thrown
  ELSE LocateList(response.body)

\* lines 150-166: the value the detail fetch resolves with (Thrown: it
\* rejected) and the number of requests it made, for the response of the
\* first request and of the ?mode=brief request
gdh_getLevelDetail(first, brief) ==
  IF first.kind = "throw" THEN [value |-> Thrown, requests |-> 1]
  ELSE IF ~first.ok
       THEN [value |-> IF brief.kind # "throw" /\ brief.ok THEN brief.body ELSE Thrown,
             requests |-> 2]
  ELSE [value |-> first.body, requests |-> 1]

\* line 355: await interaction.deferReply()
Defer(ok) ==
  /\ pc = "arrived"
  /\ IF ok
     THEN /\ interaction' = [deferred |-> TRUE, shown |-> "thinking"]
          /\ pc' = "command"
     ELSE /\ pc' = "catch"
          /\ UNCHANGED interaction
  /\ UNCHANGED <<remote, rawOpts, opts, searchLimit, searchItems, idx, matches,
                 searchRequest, searchOutcome, fetchLog, warnings>>
  /\ UNCHANGED sessionVars

\* lines 357-379: the options are parsed and findLevelsWithFilters is entered
HandleCommand ==
  /\ pc = "command"
  /\ opts' = ParseOptions(rawOpts)
  /\ pc' = "search"
  /\ UNCHANGED <<remote, rawOpts, searchLimit, searchItems, idx, matches,
                 searchRequest, searchOutcome, fetchLog, warnings, interaction>>
  /\ UNCHANGED sessionVars

\* line 189: the argument of gdh_searchLevelsAdvanced with the defaults of
\* line 121 for what is not passed
SearchParams(o) ==
  [query |-> o.query, limit |-> checkLimit(o), offset |-> JNum(0),
   sort |-> JNull, filter |-> JNull]

\* lines 186-189: the search request is sent and answered; a search that
\* rejects leaves findLevelsWithFilters and reaches the handler's catch
Search(response) ==
  /\ pc = "search"
  /\ LET params == SearchParams(opts)
         found == gdh_searchLevelsAdvanced(response)
     IN /\ searchLimit' = params.limit
        /\ searchRequest' = SearchUrl(params)
        /\ IF found.kind = "throw"
           THEN /\ searchOutcome' = "rejected"
                /\ pc' = "catch"
                /\ UNCHANGED <<searchItems, idx>>
           ELSE /\ searchOutcome' = "ok"
                /\ searchItems' = found.val
                /\ idx' = 1
                /\ pc' = "loop"
  /\ UNCHANGED <<remote, rawOpts, opts, matches, fetchLog, warnings, interaction>>
  /\ UNCHANGED sessionVars

\* mutant: a throw of the loop body is not caught
IterationRaisesOnThrow(r) == r.result = "throw"

\* lines 194, 268-270: the try/catch around the loop body takes every throw
IterationRaises(r) == FALSE

\* mutant: a match is put in front of the earlier ones
PushMatchFront(ms, m) == <<m>> \o ms

\* line 264: matches.push
PushMatch(ms, m) == Append(ms, m)

\* lines 193-271: one iteration of the loop; first and brief are the responses
\* the two requests of gdh_getLevelDetail get (Thrown where none is made)
LoopIteration(first, brief) ==
  /\ pc = "loop"
  /\ idx <= Len(searchItems)
  /\ LET item == searchItems[idx]
         levelId == extractLevelIdFromSearchItem(item)
         noFetch == levelId.kind \in {"null", "throw"}
         got == IF noFetch THEN [value |-> Thrown, requests |-> 0]
                ELSE gdh_getLevelDetail(first, brief)
         r == IF levelId.kind = "null" THEN [result |-> "continue"]
              ELSE IF levelId.kind = "throw" \/ got.value.kind = "throw"
                   THEN [result |-> "throw"]
              ELSE ProcessDetail(opts, levelId, item, got.value)
     IN /\ noFetch => first = Thrown
        /\ got.requests < 2 => brief = Thrown
        /\ fetchLog' = Append(fetchLog,
             [first |-> IF noFetch THEN "none"
                        ELSE IF first.kind = "throw" THEN "rejected"
                        ELSE IF first.ok THEN "ok" ELSE "status",
              requests |-> got.requests, result |-> r.result])
        /\ IF IterationRaises(r)
           THEN /\ pc' = "catch"
                /\ UNCHANGED <<idx, matches, warnings>>
           ELSE /\ matches' = IF r.result = "push" THEN PushMatch(matches, r.match)
                              ELSE matches
                /\ warnings' = IF r.result = "throw" THEN warnings + 1 ELSE warnings
                /\ idx' = idx + 1
                /\ UNCHANGED pc
  /\ UNCHANGED <<remote, rawOpts, opts, searchLimit, searchItems, searchRequest, searchOutcome,
                 interaction>>
  /\ UNCHANGED sessionVars

\* line 273
Return ==
  /\ pc = "loop"
  /\ idx > Len(searchItems)
  /\ pc' = "returned"
  /\ UNCHANGED <<remote, rawOpts, opts, searchLimit, searchItems, idx, matches,
                 searchRequest, searchOutcome, fetchLog, warnings, interaction>>
  /\ UNCHANGED sessionVars

\* lines 381-394: the first page is built and sent with interaction.editReply
SendReply(ok) ==
  /\ pc = "returned"
  /\ IF ok
     THEN /\ interaction' = [interaction EXCEPT
                               !.shown = makeResultsEmbed(Len(matches), 0, PerPage).kind]
          /\ pc' = "done"
     ELSE /\ pc' = "catch"
          /\ UNCHANGED interaction
  /\ UNCHANGED <<remote, rawOpts, opts, searchLimit, searchItems, idx, matches,
                 searchRequest, searchOutcome, fetchLog, warnings>>
  /\ UNCHANGED sessionVars

\* lines 416-420: the call the catch answers with
FailureNotice(deferred) == IF deferred THEN "editReply" ELSE "reply"

\* lines 414-421: the catch of the handler sends the failure notice; when that
\* send rejects too, the handler's promise rejects and nothing more is sent
Catch(ok) ==
  /\ pc = "catch"
  /\ interaction' =
       IF ok /\ FailureNotice(interaction.deferred) # "none"
       THEN [interaction EXCEPT !.shown = "error"]
       ELSE interaction
  /\ pc' = IF ok THEN "done" ELSE "rejected"
  /\ UNCHANGED <<remote, rawOpts, opts, searchLimit, searchItems, idx, matches,
                 searchRequest, searchOutcome, fetchLog, warnings>>
  /\ UNCHANGED sessionVars

(* --------------------------- specification ---------------------------- *)
SessionInit ==
  /\ sess = [s \in Sessions |-> "idle"]
  /\ owner = [s \in Sessions |-> 0]
  /\ nMatches = [s \in Sessions |-> 0]
  /\ totalPages = [s \in Sessions |-> 1]
  /\ page = [s \in Sessions |-> 0]
  /\ msg = [s \in Sessions |-> NoMessage]
  /\ inflight = [s \in Sessions |-> <<>>]
  /\ endEdit = [s \in Sessions |-> "none"]
  /\ outcome = [s \in Sessions |-> "none"]

PipelineOff ==
  /\ pc = "off"
  /\ remote = "none"
  /\ rawOpts = JNull
  /\ opts = NoOpts
  /\ searchLimit = JNum(0)
  /\ searchItems = <<>>
  /\ idx = 0
  /\ matches = <<>>
  /\ searchRequest = JNull
  /\ searchOutcome = "none"
  /\ fetchLog = <<>>
  /\ warnings = 0
  /\ interaction = [deferred |-> TRUE, shown |-> "thinking"]

\* one command whose pipeline has returned: the pagination session
Init ==
  /\ cmds = {1}
  /\ SessionInit
  /\ PipelineOff

DoReply == \E s \in Sessions, u \in Users, len \in 0..MaxMatches : Reply(s, u, len)
DoCollect == \E s \in Sessions, u \in Users, b \in Buttons : Collect(s, u, b)
DoUpdateApplied == \E s \in Sessions : UpdateApplied(s)
DoTimeout == \E s \in Sessions : Timeout(s)
DoEditApplied == \E s \in Sessions : EditApplied(s)
DoEditFailed == \E s \in Sessions : EditFailed(s)
DoLateClick == \E s \in Sessions, u \in Users, b \in Buttons : LateClick(s, u, b)

Next ==
  \/ DoReply
  \/ DoCollect
  \/ DoUpdateApplied
  \/ DoTimeout
  \/ DoEditApplied
  \/ DoEditFailed
  \/ DoLateClick

Spec == Init /\ [][Next]_vars

(* ---------------- specification of concurrent sessions ---------------- *)
\* the match counts of the two commands: two pages and three pages
ConcurrentLens == {6, 11}

\* two commands whose pipelines have returned
InitConcurrent ==
  /\ cmds = {1, 2}
  /\ SessionInit
  /\ PipelineOff

\* command s is sent by user s
DoReplyConcurrent == \E s \in cmds, len \in ConcurrentLens : Reply(s, s, len)

NextConcurrent ==
  \/ DoReplyConcurrent
  \/ DoCollect
  \/ DoUpdateApplied
  \/ DoTimeout
  \/ DoEditApplied
  \/ DoEditFailed
  \/ DoLateClick

SpecConcurrent == InitConcurrent /\ [][NextConcurrent]_vars

(* ---------------- specification of the filter pipeline ---------------- *)
MaxCount == 2

Counts == 0..MaxCount

\* an option of type integer: absent (null) or a count
IntOptions == {JNull} \cup {JNum(n) : n \in Counts}

\* the requiredobjectids option: absent, "0", "1,2", "2, x,1"
IdListOptions ==
  {JNull, JStr(<<"0">>), JStr(<<"1", ",", "2">>), JStr(<<"2", ",", " ", "x", ",", "1">>)}

RawOptions ==
  [query : {JNull}, lengthcategory : {JNull}, exactlengthseconds : {JNull},
   minobjects : IntOptions, maxobjects : IntOptions, exactobjects : IntOptions,
   requiredobjectids : IdListOptions, difficulty : {JNull}, limit : {JNull}]

\* the exactlengthseconds a command is given
ExactLengths == {0, 1, 62}

\* a length field lies up to MaxDrift tenths of a second off one of them
MaxDrift == 5

LengthTenths == {10 * t + d : t \in ExactLengths, d \in (0 - MaxDrift)..MaxDrift}

RECURSIVE DigitsOf(_)
\* the decimal digits of n >= 0
DigitsOf(n) ==
  IF n < 10 THEN <<DigitChars[n + 1]>>
  ELSE DigitsOf(n \div 10) \o <<DigitChars[(n % 10) + 1]>>

\* the text of x tenths with one fractional digit, e.g. 622 as "62.2"
DecimalChars(x) == DigitsOf(x \div 10) \o <<".">> \o DigitsOf(x % 10)

\* the difficulty codes a detail carries run from -1 to MaxCode
MaxCode == 7

DifficultyCodes == (0 - 1)..MaxCode

\* the difficulty texts a detail carries
DifficultyTexts ==
  {<<>>, <<"E", "a", "s", "y">>, <<"D", "e", "m", "o", "n">>,
   <<"H", "a", "r", "d", " ", "D", "E", "M", "O", "N">>, <<"h", "a", "r", "d">>}

\* the values of the difficulty option
DifficultyNames ==
  {<<"a", "u", "t", "o">>, <<"e", "a", "s", "y">>, <<"n", "o", "r", "m", "a", "l">>,
   <<"h", "a", "r", "d">>, <<"h", "a", "r", "d", "e", "r">>, <<"i", "n", "s", "a", "n", "e">>,
   <<"d", "e", "m", "o", "n">>, <<"D", "e", "m", "o", "n">>, <<"E", "A", "S", "Y">>}

Obj(k) == JObj([id |-> JNum(k)])

\* records of any shape: null, numbers, strings, arrays, and objects whose
\* fields or intermediate fields are missing, null or no objects
RecordShapes ==
  {JNull, JNum(0), JNum(5), JStr(<<>>), JStr(<<"x">>), JArr(<<>>), JArr(<<JNum(1)>>),
   JObj([name |-> JStr(<<"x">>)]),
   JObj([objects |-> JNull, length |-> JNull]),
   JObj([meta |-> JNull]),
   JObj([meta |-> JObj([name |-> JStr(<<"x">>)])]),
   JObj([meta |-> JObj([objects |-> JNull, length |-> JNull])]),
   JObj([metadata |-> JNum(0)]),
   JObj([metadata |-> JNum(5)]),
   JObj([meta |-> JStr(<<"x">>)]),
   JObj([metadata |-> JArr(<<>>)]),
   JObj([level |-> JNum(5)]),
   JObj([data |-> JStr(<<"x">>)]),
   JObj([object_list |-> JArr(<<JNull, JObj([name |-> JStr(<<"x">>)])>>)]),
   JObj([object_list |-> JArr(<<JNum(1)>>)])}
NoIdObj == JObj([x |-> JNum(1)])

\* the object lists a detail may carry
ObjectLists ==
  {JArr(<<>>), JArr(<<Obj(1)>>), JArr(<<Obj(2), Obj(1)>>), JArr(<<Obj(1), Obj(2), Obj(3)>>),
   JArr(<<NoIdObj>>), JArr(<<Obj(1), NoIdObj, Obj(2)>>), JArr(<<JNum(1), JNum(2)>>),
   JArr(<<JObj([object_id |-> JStr(<<"1">>)]), JObj([objectId |-> JStr(<<"2">>)])>>)}

\* the values the count fields take
CountValues ==
  {JNull, JStr(<<>>), JStr(<<" ">>), JStr(<<"x">>)}
    \cup {JNum(n) : n \in Counts} \cup {JStr(<<DigitChars[n + 1]>>) : n \in Counts}

\* detail payloads of the remote index, by family
Details(family) ==
  IF family = "objects"
  THEN {JObj([objects |-> v]) : v \in CountValues}
         \cup {JObj([object_count |-> JNum(MaxCount), object_list |-> l]) : l \in ObjectLists}
         \cup {JObj([objects |-> l]) : l \in ObjectLists}
         \cup {JObj([object_list |-> l]) : l \in ObjectLists}
         \cup {JObj([meta |-> JObj([objects |-> JNum(n)])]) : n \in Counts}
         \cup {JObj([level |-> JObj([cache_objects |-> JNum(n)])]) : n \in Counts}
         \cup {JNull, JNum(5), JObj([name |-> JStr(<<"x">>)])}
  ELSE IF family = "length"
  THEN {JObj([length |-> JTenths(x)]) : x \in LengthTenths}
         \cup {JObj([length_seconds |-> JStr(DecimalChars(x))]) : x \in LengthTenths \cap Nat}
         \cup {JObj([length |-> JStr(<<"x">>), cache_length |-> JTenths(x)]) : x \in LengthTenths}
         \cup {JObj([meta |-> JObj([length |-> JStr(DecimalChars(x) \o <<"s">>)])]) :
                  x \in LengthTenths \cap Nat}
         \cup {JObj([level |-> JObj([lengthSeconds |-> JTenths(x)])]) : x \in LengthTenths}
         \cup {JObj([length |-> v]) :
                  v \in {JNull, JStr(<<>>), JStr(<<"x">>), JStr(<<"1", ":", "0", "2">>),
                         JStr(<<"6", "2", ".">>), JArr(<<>>)}}
         \cup {JNull, JNum(5), JObj([name |-> JStr(<<"x">>)])}
  ELSE IF family = "difficulty"
  THEN {JObj([cache_filter_difficulty |-> JNum(c)]) : c \in DifficultyCodes}
         \cup {JObj([difficulty |-> JStr(DigitsOf(c))]) : c \in DifficultyCodes \cap Nat}
         \cup {JObj([level |-> JObj([difficulty_id |-> JNum(c)])]) : c \in DifficultyCodes}
         \cup {JObj([difficulty_text |-> JStr(t)]) : t \in DifficultyTexts}
         \cup {JObj([level_difficulty |-> JNum(c), difficultyName |-> JStr(t)]) :
                  c \in {0, 3, 6}, t \in DifficultyTexts}
         \cup {JNull, JObj([name |-> JStr(<<"x">>)])}
  ELSE IF family = "handler"
  THEN {JObj([objects |-> JNum(1)]), JObj([objects |-> JNum(3)]), JNum(5)}
  ELSE IF family = "search"
  THEN {JObj([objects |-> JNum(1)])}
  ELSE IF family = "shapes"
  THEN RecordShapes
  ELSE {}

WithId == JObj([id |-> JNum(7)])
WithoutId == JObj([name |-> JStr(<<"x">>)])

\* the arrays the search answers with
SearchResponses == {<<>>, <<WithId>>, <<WithoutId>>, <<WithoutId, WithId>>}

InitFilter ==
  /\ cmds = {}
  /\ SessionInit
  /\ pc = "command"
  /\ remote = "objects"
  /\ rawOpts \in RawOptions
  /\ opts = NoOpts
  /\ searchLimit = JNum(0)
  /\ searchItems = <<>>
  /\ idx = 0
  /\ matches = <<>>
  /\ searchRequest = JNull
  /\ searchOutcome = "none"
  /\ fetchLog = <<>>
  /\ warnings = 0
  /\ interaction = [deferred |-> TRUE, shown |-> "thinking"]

ItemA == JObj([id |-> JNum(1)])
ItemB == JObj([online_id |-> JNum(2)])

\* the arrays the search answers with in the family "handler": items with an
\* id, without one, and one that is no object
HandlerLists ==
  {<<>>, <<ItemA>>, <<WithoutId>>, <<ItemA, ItemB>>, <<ItemB, ItemA>>, <<ItemA, ItemA>>,
   <<ItemA, JNum(5), ItemB>>, <<ItemB, WithoutId, ItemA>>, <<ItemA, ItemB, ItemA>>}

\* a list of one item with id k
ListOf(k) == JArr(<<JObj([id |-> JNum(k)])>>)

\* the bodies the search answers with in the family "search": the list at
\* the top level, under one or several of the known keys, under another key,
\* nested one level down, or nowhere
SearchBodies ==
  {ListOf(1), JArr(<<>>),
   JObj([results |-> ListOf(1), data |-> ListOf(2), levels |-> ListOf(3)]),
   JObj([success |-> JStr(<<"x">>), results |-> ListOf(1)]),
   JObj([results |-> JStr(<<"x">>), data |-> ListOf(2), rows |-> ListOf(5)]),
   JObj([levels |-> ListOf(3), items |-> ListOf(4), other |-> ListOf(6)]),
   JObj([items |-> ListOf(4), rows |-> ListOf(5)]),
   JObj([rows |-> ListOf(5), other |-> ListOf(6)]),
   JObj([status |-> JStr(<<"o", "k">>), other |-> ListOf(6)]),
   JObj([status |-> JStr(<<"o", "k">>), payload |-> JObj([levels |-> ListOf(3)])]),
   JObj([status |-> JStr(<<"o", "k">>)]),
   JNum(5)}

\* what the search fetch is answered with, by family: a response, or Thrown
\* when the endpoint cannot be reached
SearchAnswers(family) ==
  IF family = "handler"
  THEN {OkResponse(JArr(items)) : items \in HandlerLists}
         \cup {HttpError, Thrown, OkResponse(Thrown)}
  ELSE IF family = "search"
  THEN {OkResponse(body) : body \in SearchBodies}
  ELSE {OkResponse(JArr(items)) : items \in SearchResponses}

\* what the first detail request and the ?mode=brief request are answered with
FirstAnswers(family) ==
  IF family = "handler"
  THEN {OkResponse(d) : d \in Details(family)} \cup {HttpError, Thrown, OkResponse(Thrown)}
  ELSE {OkResponse(d) : d \in Details(family)} \cup {Thrown}

BriefAnswers(family) ==
  IF family = "handler"
  THEN {OkResponse(d) : d \in Details(family)} \cup {HttpError, Thrown, OkResponse(Thrown)}
  ELSE {Thrown}

DoSearch == \E response \in SearchAnswers(remote) : Search(response)
DoLoopIteration ==
  \E first \in FirstAnswers(remote), brief \in BriefAnswers(remote) : LoopIteration(first, brief)

NextFilter ==
  \/ HandleCommand
  \/ DoSearch
  \/ DoLoopIteration
  \/ Return

SpecFilter == InitFilter /\ [][NextFilter]_vars

(* ------------- specifications of single filters of the pipeline ------- *)
NoRawOptions ==
  [query |-> JNull, lengthcategory |-> JNull, exactlengthseconds |-> JNull,
   minobjects |-> JNull, maxobjects |-> JNull, exactobjects |-> JNull,
   requiredobjectids |-> JNull, difficulty |-> JNull, limit |-> JNull]

\* a command with options raw has been deferred; the remote serves family
PipelineStart(family, raws) ==
  /\ cmds = {}
  /\ SessionInit
  /\ pc = "command"
  /\ remote = family
  /\ rawOpts \in raws
  /\ opts = NoOpts
  /\ searchLimit = JNum(0)
  /\ searchItems = <<>>
  /\ idx = 0
  /\ matches = <<>>
  /\ searchRequest = JNull
  /\ searchOutcome = "none"
  /\ fetchLog = <<>>
  /\ warnings = 0
  /\ interaction = [deferred |-> TRUE, shown |-> "thinking"]

RawLengthOptions ==
  {[NoRawOptions EXCEPT !.exactlengthseconds = v] :
     v \in {JNull} \cup {JNum(t) : t \in ExactLengths}}

InitLength == PipelineStart("length", RawLengthOptions)

SpecLength == InitLength /\ [][NextFilter]_vars

RawDifficultyOptions ==
  {[NoRawOptions EXCEPT !.difficulty = v] :
     v \in {JNull} \cup {JStr(n) : n \in DifficultyNames}}

InitDifficulty == PipelineStart("difficulty", RawDifficultyOptions)

SpecDifficulty == InitDifficulty /\ [][NextFilter]_vars

(* ---------------- specification of the field extractor ---------------- *)
\* commands that make the loop read the count, length, object list and
\* difficulty fields
RawExtractOptions ==
  {NoRawOptions,
   [NoRawOptions EXCEPT !.requiredobjectids = JStr(<<"1">>)],
   [NoRawOptions EXCEPT !.exactlengthseconds = JNum(1)],
   [NoRawOptions EXCEPT !.difficulty = JStr(<<"d", "e", "m", "o", "n">>)]}

InitExtract == PipelineStart("shapes", RawExtractOptions)

SpecExtract == InitExtract /\ [][NextFilter]_vars

(* ---------------- specification of the search request ----------------- *)
\* the limit option lies within LimitSlack of 0 or of the cap, or is the default
LimitSlack == 2

LimitOptions ==
  {JNull, JNum(DefaultLimit)}
    \cup {JNum(n) : n \in (0 - LimitSlack)..LimitSlack}
    \cup {JNum(n) : n \in (MaxCheck - LimitSlack)..(MaxCheck + LimitSlack)}

LengthCategories == {JStr(<<"s", "h", "o", "r", "t">>), JStr(<<"x", "l">>)}

RawSearchOptions ==
  {[NoRawOptions EXCEPT !.limit = l, !.lengthcategory = c, !.difficulty = d, !.query = q] :
     l \in LimitOptions, c \in {JNull} \cup LengthCategories,
     d \in {JNull, JStr(<<"a", "u", "t", "o">>), JStr(<<"h", "a", "r", "d">>)},
     q \in {JNull, JStr(<<"x">>)}}

InitSearch == PipelineStart("search", RawSearchOptions)

SpecSearch == InitSearch /\ [][NextFilter]_vars

(* ------------------- specification of the whole handler --------------- *)
RawHandlerOptions == {NoRawOptions, [NoRawOptions EXCEPT !.maxobjects = JNum(2)]}

\* a /findlevel command has arrived and nothing has been sent yet
InitHandler ==
  /\ cmds = {}
  /\ SessionInit
  /\ pc = "arrived"
  /\ remote = "handler"
  /\ rawOpts \in RawHandlerOptions
  /\ opts = NoOpts
  /\ searchLimit = JNum(0)
  /\ searchItems = <<>>
  /\ idx = 0
  /\ matches = <<>>
  /\ searchRequest = JNull
  /\ searchOutcome = "none"
  /\ fetchLog = <<>>
  /\ warnings = 0
  /\ interaction = [deferred |-> FALSE, shown |-> "none"]

DoDefer == \E ok \in BOOLEAN : Defer(ok)
DoSendReply == \E ok \in BOOLEAN : SendReply(ok)
DoCatch == \E ok \in BOOLEAN : Catch(ok)

NextHandler ==
  \/ DoDefer
  \/ HandleCommand
  \/ DoSearch
  \/ DoLoopIteration
  \/ Return
  \/ DoSendReply
  \/ DoCatch

SpecHandler == InitHandler /\ [][NextHandler]_vars

(* ------------- specification of the handler with a small limit -------- *)
\* /findlevel limit:1 and /findlevel limit:2, against search answers that
\* hold from no item to three
RawLimitOptions ==
  {[NoRawOptions EXCEPT !.limit = JNum(1)], [NoRawOptions EXCEPT !.limit = JNum(2)]}

InitLimit ==
  /\ cmds = {}
  /\ SessionInit
  /\ pc = "arrived"
  /\ remote = "handler"
  /\ rawOpts \in RawLimitOptions
  /\ opts = NoOpts
  /\ searchLimit = JNum(0)
  /\ searchItems = <<>>
  /\ idx = 0
  /\ matches = <<>>
  /\ searchRequest = JNull
  /\ searchOutcome = "none"
  /\ fetchLog = <<>>
  /\ warnings = 0
  /\ interaction = [deferred |-> FALSE, shown |-> "none"]

SpecLimit == InitLimit /\ [][NextHandler]_vars

(* =========================== pagination claims ========================= *)
HasSession(s) == sess[s] \in {"single", "active", "ended"}

\* C1: in every reachable state of a session over L >= 1 matches,
\* totalPages is the least number of pages of 5 that hold L matches
\* (max(1, ceil(L/5))) and the cursor satisfies 0 <= currentPage <= totalPages-1,
\* whatever prev_page / next_page events arrived, from whomever.
C1_CursorInRange ==
  \A s \in Sessions :
    HasSession(s) =>
      /\ nMatches[s] >= 1
      /\ totalPages[s] >= 1
      /\ totalPages[s] * PerPage >= nMatches[s]
      /\ (totalPages[s] - 1) * PerPage < nMatches[s]
      /\ 0 <= page[s]
      /\ page[s] <= totalPages[s] - 1

\* C1 witness: the owner pressed prev twice in a row and the second press
\* found the cursor already at 0 (both rendered pages start at match 0)
C1_Witness ==
  \E s \in Sessions :
    /\ sess[s] = "active"
    /\ page[s] = 0
    /\ Len(inflight[s]) = 2
    /\ inflight[s][1].embed.start = 0
    /\ inflight[s][2].embed.start = 0

\* C2: a navigation event of the session owner moves the cursor by the
\* documented step (prev: one down but not below 0; next: one up but not
\* above totalPages-1), and no button event changes the match list or totalPages.
C2_OwnerStep ==
  [][\A s \in Sessions, u \in Users, b \in Buttons :
       /\ (Collect(s, u, b) /\ u = owner[s]) =>
            page'[s] = IF b = "prev_page"
                       THEN (IF page[s] = 0 THEN 0 ELSE page[s] - 1)
                       ELSE (IF page[s] = totalPages[s] - 1 THEN page[s] ELSE page[s] + 1)
       /\ (Collect(s, u, b) \/ LateClick(s, u, b)) =>
            nMatches' = nMatches /\ totalPages' = totalPages]_vars

\* C2 witness: the owner pressed next twice in a row with the cursor ending on
\* the last page both times (next on page totalPages-1 left it there)
C2_Witness ==
  \E s \in Sessions :
    /\ sess[s] = "active"
    /\ page[s] = totalPages[s] - 1
    /\ Len(inflight[s]) = 2
    /\ inflight[s][1].embed.start = (totalPages[s] - 1) * PerPage
    /\ inflight[s][2].embed.start = (totalPages[s] - 1) * PerPage

\* C3: a button event of a user who is not the owner changes neither the
\* cursor nor the message (page shown, buttons) nor sends an update; it is
\* answered with the private notice only.
C3_NonOwnerNoChange ==
  [][\A s \in Sessions, u \in Users, b \in Buttons :
       (Collect(s, u, b) /\ u # owner[s]) =>
         /\ page' = page
         /\ msg' = msg
         /\ inflight' = inflight
         /\ sess' = sess
         /\ outcome'[s] = "notice"]_vars

\* C3 witness: a non-owner was turned away while the owner had already
\* navigated off the first page
C3_Witness ==
  \E s \in Sessions : sess[s] = "active" /\ outcome[s] = "notice" /\ page[s] > 0

\* C4 (as claimed): a button event after the session lifetime has elapsed
\* leaves the cursor alone and is answered with a notice to the actor.
C4_LateNavRejected ==
  [][\A s \in Sessions, u \in Users, b \in Buttons :
       LateClick(s, u, b) => (page'[s] = page[s] /\ outcome'[s] = "notice")]_vars

\* C5 (as claimed): once the lifetime timeout has fired and every request sent
\* for the session has been settled, the message carries no navigation buttons.
C5_ControlsRemoved ==
  \A s \in Sessions :
    (sess[s] = "ended" /\ endEdit[s] \in {"applied", "failed"} /\ inflight[s] = <<>>) =>
      msg[s].components = <<>>

(* ============================ filter claims ============================ *)
Returned == pc = "returned"

MatchSet == {matches[i] : i \in 1..Len(matches)}

\* C6: with exactObjects = k every returned match has objectCount k or
\* null, and no returned match's detail carries a count field holding a number
\* other than k.
C6_ExactObjects ==
  (pc \in {"loop", "returned"} /\ opts.exactObjects.kind = "number") =>
    \A m \in MatchSet :
      /\ m.objectCount \in {opts.exactObjects, JNull}
      /\ extractObjectCount(m.detail).kind = "number" =>
           extractObjectCount(m.detail).val = opts.exactObjects.val

\* C6 witness: a run with exactobjects given returned a match of that count
C6_Witness ==
  /\ Returned
  /\ rawOpts.exactobjects = JNum(1)
  /\ Len(matches) = 1
  /\ matches[1].objectCount = JNum(1)

\* C7: with exactObjects set, the object-count check decides every record
\* as it would under any other minObjects / maxObjects: it gives the same
\* verdict on every detail the remote can serve, and every match the run kept
\* is kept under any other range too.
C7_ExactOverridesRange ==
  (pc \in {"loop", "returned"} /\ opts.exactObjects.kind = "number") =>
    LET readable == {d \in Details(remote) : extractObjectCount(LevelObject(d)).kind # "throw"}
        counts == {Normalize(extractObjectCount(LevelObject(d))) : d \in readable}
                    \cup {m.objectCount : m \in MatchSet}
    IN \A n \in counts :
         \A a \in {JNum(k) : k \in Counts}, b \in {JNum(k) : k \in Counts} \cup {JInf} :
           LET other == [opts EXCEPT !.minObjects = a, !.maxObjects = b]
           IN /\ ObjectFilter(opts, n) <=> ObjectFilter(other, n)
              /\ n \in {m.objectCount : m \in MatchSet} => ObjectFilter(other, n)

\* C7 witness: a returned match whose count equals exactObjects although it
\* lies below minObjects
C7_Witness ==
  /\ Returned
  /\ opts.exactObjects = JNum(1)
  /\ opts.minObjects = JNum(2)
  /\ Len(matches) = 1
  /\ matches[1].objectCount = JNum(1)

\* C8 (as claimed): without exactobjects, every returned match with a known
\* count lies between the minobjects and maxobjects the user gave.
C8_RangeOptions ==
  (Returned /\ rawOpts.exactobjects = JNull) =>
    \A m \in MatchSet :
      m.objectCount.kind = "number" =>
        /\ rawOpts.minobjects.kind = "number" => rawOpts.minobjects.val <= m.objectCount.val
        /\ rawOpts.maxobjects.kind = "number" => m.objectCount.val <= rawOpts.maxobjects.val

\* the count of a detail is unknown: no candidate field is present, or its
\* value does not coerce to a number
UnknownCount(detail) ==
  LET c == extractObjectCount(LevelObject(detail))
  IN c.kind # "throw" /\ Normalize(c).kind \in {"null", "nan"}

\* C9 (as claimed): a record of unknown count passes the object-count
\* check whatever minObjects, maxObjects and exactObjects are; with no other
\* filter set the iteration therefore keeps it.
C9_UnknownCountPasses ==
  [][\A fetched \in Details(remote) :
       (/\ LoopIteration(OkResponse(fetched), Thrown)
        /\ extractLevelIdFromSearchItem(searchItems[idx]).kind = "number"
        /\ UnknownCount(fetched)
        /\ opts.requiredObjectIds = <<>>) =>
         Len(matches') = Len(matches) + 1]_vars

\* the ids the entries of an object list carry
IdsOfList(arr) ==
  {ToNumber(tryGet(arr[i], ObjectIdKeys)) :
     i \in {j \in 1..Len(arr) : arr[j].kind = "object"
                                 /\ tryGet(arr[j], ObjectIdKeys).kind # "null"}}

\* C10 (as claimed): with requiredObjectIds non-empty every returned match's
\* detail exposes an object list and the ids of its entries include every
\* required id.
C10_RequiredIds ==
  (pc \in {"loop", "returned"} /\ opts.requiredObjectIds # <<>>) =>
    \A m \in MatchSet :
      LET list == tryGet(m.detail, ObjectListKeys)
      IN /\ list.kind = "array"
         /\ \A j \in 1..Len(opts.requiredObjectIds) :
              opts.requiredObjectIds[j] \in IdsOfList(list.val)

(* ============================ length claims ============================ *)
\* the length the field extractor reads off a detail, null when unknown
LengthOf(detail) == Normalize(extractLengthSeconds(LevelObject(detail)))

CodeOf(detail) ==
  LET code == tryGet(LevelObject(detail), DifficultyKeys)
  IN IF code.kind = "null" THEN JNull ELSE ToNumber(code)

\* the difficulty text of a detail, null when it carries none or an empty one
TextOf(detail) ==
  LET text == tryGet(LevelObject(detail), DifficultyTextKeys)
  IN IF text.kind = "string" /\ text.val # <<>> THEN text ELSE JNull

\* C12 (as claimed): an iteration keeps the record it fetched, under
\* difficulty easy..insane and a numeric code (any integer, 0 included), iff the
\* code is 1..5 respectively; under demon and a numeric code iff the code is at
\* least 6; under demon without a code but with a text iff the text contains
\* "dem"; under demon with neither, always; under auto or no difficulty, always.
C12_Difficulty ==
  [][\A fetched \in Details(remote) :
       (/\ LoopIteration(OkResponse(fetched), Thrown)
        /\ extractLevelIdFromSearchItem(searchItems[idx]).kind = "number") =>
         LET kept == Len(matches') = Len(matches) + 1
             code == CodeOf(fetched)
             text == TextOf(fetched)
             wanted == IF opts.difficulty.kind = "string"
                       THEN ToLowerCase(opts.difficulty.val) ELSE <<"a", "u", "t", "o">>
         IN IF wanted = <<"a", "u", "t", "o">> THEN kept
            ELSE IF wanted = <<"d", "e", "m", "o", "n">>
                 THEN /\ code.kind = "number" => (kept <=> code.val >= 60)
                      /\ (code.kind = "null" /\ text.kind = "string") =>
                           (kept <=> Contains(ToLowerCase(text.val), <<"d", "e", "m">>))
                      /\ (code.kind = "null" /\ text.kind = "null") => kept
            ELSE code.kind = "number" => (kept <=> code.val = 10 * diffMap[wanted])]_vars

(* ============================ batch claims ============================= *)
\* the search was answered with an array and the loop over it is over
LoopDone ==
  /\ pc \in {"returned", "catch", "done", "rejected"}
  /\ searchOutcome = "ok"

\* the items among the first n of the search result whose iteration pushed
RECURSIVE PushedItems(_)
PushedItems(n) ==
  IF n = 0 THEN <<>>
  ELSE PushedItems(n - 1)
         \o (IF fetchLog[n].result = "push" THEN <<searchItems[n]>> ELSE <<>>)

\* C13: a candidate that fails (its detail fetch rejects, or its payload
\* makes the processing throw) never ends the run: once the search has answered,
\* the loop visits every candidate and findLevelsWithFilters returns; the matches
\* are exactly the candidates whose iteration got through the filters, and there
\* is one logged skip per failed candidate.
C13_FailuresSkipped ==
  /\ (pc = "catch" /\ searchOutcome = "ok") => idx = Len(searchItems) + 1
  /\ LoopDone =>
        /\ Len(fetchLog) = Len(searchItems)
        /\ [i \in 1..Len(matches) |-> matches[i].searchItem] = PushedItems(Len(searchItems))
        /\ warnings = Cardinality({i \in 1..Len(fetchLog) : fetchLog[i].result = "throw"})
        /\ \A i \in 1..Len(matches) : ObjectFilter(opts, matches[i].objectCount)

\* C13 witness: three candidates, the middle one failed and was logged, the
\* other two were returned
C13_Witness ==
  /\ Returned
  /\ Len(searchItems) = 3
  /\ fetchLog[2].result = "throw"
  /\ warnings = 1
  /\ Len(matches) = 2

(* ============================ service claims =========================== *)
\* the answers of an endpoint that is unreachable or answers non-success
FailedSearches == {Thrown, HttpError}

\* C14 (as claimed): when the search endpoint is unreachable or answers
\* with a non-success status, findLevelsWithFilters goes on with no candidates
\* and returns an empty match sequence; the failure notice is never shown.
C14_SearchFailureEmpty ==
  /\ [][\A response \in FailedSearches :
          Search(response) => (pc' = "loop" /\ searchItems' = <<>>)]_vars
  /\ [](searchOutcome = "rejected" =>
          /\ interaction.shown # "error"
          /\ pc = "done" => interaction.shown = "noresults")

\* C14 (amended): when the search endpoint is unreachable or answers with
\* a non-success status, the search rejects and findLevelsWithFilters raises:
\* control goes to the handler's catch with no detail fetched and no match, the
\* results or no-results page is never shown, and a handler that then finishes
\* has shown the failure notice.
C14_SearchFailureRaises ==
  /\ [][\A response \in FailedSearches :
          Search(response) => (pc' = "catch" /\ searchOutcome' = "rejected")]_vars
  /\ [](searchOutcome = "rejected" =>
          /\ pc \in {"catch", "done", "rejected"}
          /\ matches = <<>>
          /\ fetchLog = <<>>
          /\ interaction.shown \in {"thinking", "error"}
          /\ pc = "done" => interaction.shown = "error")

\* C14 witness: the search failed and the requester got the failure notice
C14_Witness ==
  /\ searchOutcome = "rejected"
  /\ pc = "done"
  /\ interaction.shown = "error"

\* C15 (as claimed): a detail fetch whose first request fails, by a
\* non-2xx status or by a transport error, makes exactly one more request, to
\* ?mode=brief, before it fails; a successful brief response is what the
\* iteration then works on; no fetch makes more than two requests.
C15_RetryOnce ==
  [][\A first \in FirstAnswers(remote), brief \in BriefAnswers(remote) :
       (/\ LoopIteration(first, brief)
        /\ extractLevelIdFromSearchItem(searchItems[idx]).kind = "number") =>
         LET entry == fetchLog'[Len(fetchLog')]
             item == searchItems[idx]
             failed == first.kind = "throw" \/ ~first.ok
         IN /\ entry.requests <= 2
            /\ failed => entry.requests = 2
            /\ ~failed => entry.requests = 1
            /\ (failed /\ brief.kind # "throw" /\ brief.ok /\ brief.body.kind # "throw") =>
                 entry.result =
                   ProcessDetail(opts, extractLevelIdFromSearchItem(item), item,
                                 brief.body).result]_vars

\* C17: the matches are a subsequence of the search result: each match is
\* the candidate of one position of the result, the positions increase along
\* the matches (same relative order, at most once per occurrence).
C17_MatchOrder ==
  searchOutcome = "ok" =>
    \E f \in [1..Len(matches) -> 1..Len(searchItems)] :
      /\ \A i \in 1..Len(matches) : matches[i].searchItem = searchItems[f[i]]
      /\ \A i \in 1..Len(matches), j \in 1..Len(matches) : i < j => f[i] < f[j]

\* C17 witness: two candidates with different ids were both kept
C17_Witness ==
  /\ Returned
  /\ searchItems = <<ItemB, ItemA>>
  /\ Len(matches) = 2
  /\ matches[1].searchItem = ItemB
  /\ matches[2].searchItem = ItemA

(* ============================ handler claims =========================== *)
\* the requester has been sent a page or the failure notice
Replied == interaction.shown \in {"results", "noresults", "error"}

\* C18 (as claimed): whichever step fails (deferring, the search, building
\* or sending the page, sending the failure notice itself), a handler that has
\* run to its end has sent the requester at least one reply.
C18_AlwaysReplied ==
  pc \in {"done", "rejected"} => Replied

(* ============================ search claims ============================ *)
\* the arrays found in an object: among its values and the values of the
\* objects it holds
ArraysWithin(json) ==
  LET top == IF json.kind = "object" THEN {json.val[k] : k \in DOMAIN json.val} ELSE {}
      below == UNION {{v.val[k] : k \in DOMAIN v.val} : v \in {w \in top : w.kind = "object"}}
  IN {v \in top \cup below : v.kind = "array"}

\* C16 (as claimed): the list of a parsed search body is the body itself
\* when it is an array, else the first array among results, data, levels, items,
\* rows, else the first array found anywhere in the object (also nested, as for
\* {status, payload: {levels: [...]}}), else the empty list.
C16_ProbingOrder ==
  [][\A body \in SearchBodies :
       Search(OkResponse(body)) =>
         LET known == <<"results", "data", "levels", "items", "rows">>
             hits == {i \in 1..Len(known) : GetProp(body, known[i]).kind = "array"}
             first == CHOOSE i \in hits : \A j \in hits : i <= j
         IN IF body.kind = "array" THEN searchItems' = body.val
            ELSE IF hits # {} THEN searchItems' = GetProp(body, known[first]).val
            ELSE IF ArraysWithin(body) # {}
                 THEN searchItems' \in {a.val : a \in ArraysWithin(body)}
            ELSE searchItems' = <<>>]_vars

\* the request a command with the raw options raw sends
RequestOf(raw) == SearchUrl(SearchParams(ParseOptions(raw)))

\* C19 (as claimed): a set lengthCategory and a non-auto difficulty are
\* put on the search request: a command that differs from the one run only in
\* its lengthCategory, or only in naming a non-auto difficulty or none, sends a
\* different search request.
C19_RequestCarriesFilters ==
  searchRequest # JNull =>
    /\ searchRequest = RequestOf(rawOpts)
    /\ \A c \in {JNull} \cup LengthCategories :
         c # rawOpts.lengthcategory =>
           RequestOf([rawOpts EXCEPT !.lengthcategory = c]) # searchRequest
    /\ \A d \in {JNull, JStr(<<"h", "a", "r", "d">>)} :
         d # rawOpts.difficulty =>
           RequestOf([rawOpts EXCEPT !.difficulty = d]) # searchRequest

\* C20: whatever integer the limit option holds (absent, 0, negative,
\* above the cap), the limit on the search request is a whole number from 1 to
\* 200.
C20_LimitInRange ==
  searchRequest # JNull =>
    /\ searchRequest.limit.kind = "number"
    /\ searchRequest.limit.val % 10 = 0
    /\ 1 <= searchRequest.limit.val \div 10
    /\ searchRequest.limit.val \div 10 <= 200
    /\ searchLimit = searchRequest.limit

\* C20 witness: a command with limit 201 has sent its search with limit 200
C20_Witness ==
  /\ searchRequest # JNull
  /\ rawOpts.limit = JNum(MaxCheck + 1)
  /\ searchRequest.limit = JNum(200)

(* ========================== extractor claims =========================== *)
\* C21 (as claimed): the field extractor never raises: whatever shape the
\* record an iteration fetched has (null, a number, a string, an array, an
\* object with missing or null intermediate fields), tryGet and the extract
\* helpers give a value or null, and the iteration does not end in its catch.
C21_ExtractorNeverRaises ==
  [][\A fetched \in Details(remote) :
       (/\ LoopIteration(OkResponse(fetched), Thrown)
        /\ extractLevelIdFromSearchItem(searchItems[idx]).kind = "number") =>
         /\ tryGet(fetched, ObjectCountKeys).kind # "throw"
         /\ extractObjectCount(LevelObject(fetched)).kind # "throw"
         /\ extractLengthSeconds(LevelObject(fetched)).kind # "throw"
         /\ tryGet(LevelObject(fetched), DifficultyKeys).kind # "throw"
         /\ fetchLog'[Len(fetchLog')].result # "throw"]_vars

(* ========================= concurrency claims ========================== *)
\* session t is as it was: its cursor, match list, page count, message,
\* requests in flight and lifetime
SessionUntouched(t) ==
  /\ page'[t] = page[t]
  /\ nMatches'[t] = nMatches[t]
  /\ totalPages'[t] = totalPages[t]
  /\ msg'[t] = msg[t]
  /\ inflight'[t] = inflight[t]
  /\ sess'[t] = sess[t]
  /\ owner'[t] = owner[t]

\* C22: with two sessions alive, a button event on the message of one
\* session, the update it sends, and the expiry of that session and its edit,
\* leave the cursor, match list and displayed page of the other session as
\* they were, in every interleaving.
C22_SessionsIsolated ==
  [][\A s \in Sessions :
       (\/ \E u \in Users, b \in Buttons : Collect(s, u, b) \/ LateClick(s, u, b)
        \/ UpdateApplied(s)
        \/ Timeout(s)
        \/ EditApplied(s)
        \/ EditFailed(s)) =>
         \A t \in Sessions \ {s} : SessionUntouched(t)]_vars

\* C22 witness: both sessions are alive, the owner of the first has moved
\* to its second page and the owner of the second, after going there and
\* back, is on its first page
C22_Witness ==
  /\ sess[1] = "active"
  /\ sess[2] = "active"
  /\ page[1] = 1
  /\ msg[1].embed.start = PerPage
  /\ page[2] = 0
  /\ msg[2].embed.start = 0
  /\ Len(inflight[2]) = 1
  /\ outcome[2] = "update"

(* ------------------------- the empty result --------------------------- *)
\* the reply of session s is the 'No results' page and nothing else
NoResultsPage(s) ==
  /\ nMatches[s] = 0
  /\ totalPages[s] = 1
  /\ page[s] = 0
  /\ msg[s] = [embed |-> [kind |-> "noresults", start |-> 0, fields |-> 0],
               components |-> <<>>]
  /\ \A b \in Buttons : ~Clickable(s, b)
  /\ inflight[s] = <<>>
  /\ endEdit[s] = "none"
  /\ outcome[s] = "none"

\* C23: a command whose pipeline returned no matches is answered with the
\* single 'No results' page: the page count is 1, the message carries no
\* navigation controls, no collector is opened (nothing is collected, nothing
\* expires), and from then on no step changes the page or the message; the
\* reply is the 'No results' embed, never the failure notice.
C23_EmptyResult ==
  [][\A s \in Sessions :
       /\ (\E u \in Users : Reply(s, u, 0)) => sess'[s] = "noresults"
       /\ sess'[s] = "noresults" => NoResultsPage(s)'
       /\ sess[s] = "noresults" =>
            /\ sess'[s] = "noresults"
            /\ page'[s] = page[s]
            /\ msg'[s] = msg[s]]_vars

\* C23 witness: the command was answered from an empty match list
C23_Witness ==
  /\ sess[1] = "noresults"
  /\ nMatches[1] = 0
  /\ msg[1].embed.kind = "noresults"

(* --------------------------- the check limit --------------------------- *)
\* the iterations of the run that sent a detail request
DetailFetches == {i \in 1..Len(fetchLog) : fetchLog[i].first # "none"}

\* C24: the number of candidates one run fetches the detail of never exceeds
\* the clamped checkLimit (itself at most 200) sent with the search, even when
\* the search answers with more items than that limit.
C24_FetchesWithinLimit ==
  searchOutcome = "ok" =>
    /\ searchLimit.val \div 10 <= MaxCheck
    /\ Cardinality(DetailFetches) <= searchLimit.val \div 10

(* ----------------------- controls and the cursor ----------------------- *)
\* lines 405-407: what the collect callback renders for cursor p of session s
RenderOf(s, p) ==
  [embed |-> makeResultsEmbed(nMatches[s], p, PerPage),
   components |-> <<makePaginatorRow(p, totalPages[s])>>]

\* message m shows the page of cursor p of session s, with controls that agree
\* with it
AgreesWithCursor(s, m, p) ==
  /\ m.components # <<>>
  /\ m.components[1].prevDisabled <=> p = 0
  /\ m.components[1].nextDisabled <=> p = totalPages[s] - 1
  /\ m.embed.kind = "results"
  /\ m.embed.start = p * PerPage
  /\ m.embed.start < nMatches[s]
  /\ m.embed.fields >= 1
  /\ m.embed.fields = Min(PerPage, nMatches[s] - p * PerPage)

\* with no update pending, the message of a live session shows its cursor
ShowsCursorWhenSettled(s) ==
  (sess[s] = "active" /\ inflight[s] = <<>>) =>
    /\ msg[s] = RenderOf(s, page[s])
    /\ AgreesWithCursor(s, msg[s], page[s])

\* C25: in a live session, what an owner navigation renders agrees with the
\* cursor it has just set: Prev is disabled iff currentPage = 0, Next is
\* disabled iff currentPage = totalPages - 1, and the window
\* matches[currentPage*5 .. currentPage*5+5) holds at least one match; once
\* every update has been applied the message shows exactly that; and a click
\* of the owner on an enabled button of a message that shows the current
\* cursor always changes currentPage.
C25_ControlsAgree ==
  [][\A s \in Sessions :
       /\ \A u \in Users, b \in Buttons :
            (Collect(s, u, b) /\ IsOwner(s, u)) =>
              /\ inflight'[s] = Append(inflight[s], RenderOf(s, page'[s]))
              /\ AgreesWithCursor(s, inflight'[s][Len(inflight'[s])], page'[s])
              /\ msg[s] = RenderOf(s, page[s]) => page'[s] # page[s]
       /\ ShowsCursorWhenSettled(s)']_vars

\* C25 witness: the owner has gone to the last page of three, the update has
\* been applied, and the message shows Next disabled and Prev enabled
C25_Witness ==
  /\ sess[1] = "active"
  /\ outcome[1] = "update"
  /\ totalPages[1] = 3
  /\ page[1] = 2
  /\ inflight[1] = <<>>
  /\ msg[1].embed.start = 2 * PerPage
  /\ msg[1].components[1].nextDisabled
  /\ ~msg[1].components[1].prevDisabled

====
